---- MODULE Spec2Model ----
(***************************************************************************)
(* The Plan -> Act -> Reflect loop of BaseAgent (src/base_agent.py).       *)
(*                                                                         *)
(* One agent instance with its fields, and the process(goal) calls made    *)
(* on it.  A call is a sequence of program points (pc); the language       *)
(* model, the tools and the observer callback are the environment: every   *)
(* model call returns some value of its schema or fails, every tool's      *)
(* execute returns or raises, the callback returns or raises.              *)
(*                                                                         *)
(* Not modelled: tracing (opper.spans.create / update), verbose printing,  *)
(* the timestamp of a cycle, and exceptions outside the Exception          *)
(* hierarchy (KeyboardInterrupt, SystemExit).                              *)
(***************************************************************************)
EXTENDS Integers, Sequences, FiniteSets, TLC

\* ---------------------------------------------------------------- bounds
\* largest max_iterations an agent is constructed with
MaxIter == 2
\* number of process calls made on the agent
MaxCalls == 2

\* ---------------------------------------------------------------- values
Threads == {"t1", "t2"}
\* the caller of the serialized specification
Caller == "t1"

Goals == {"g1", "g2"}
\* tool names the model may put in an Action; "multiply" is never registered
ActionNames == {"add", "multiply", "direct_response"}
Params == {"a3b4"}
CallbackKinds == {"none", "returns", "raises"}

\* Python's None, and an unbound local
NoneVal == [none |-> TRUE]

AddTool == [name |-> "add", uid |-> 1]
SentinelNamedTool == [name |-> "direct_response", uid |-> 2]
\* the tool lists an agent is constructed with
InitTools == {<<AddTool>>, <<AddTool, SentinelNamedTool>>}

VARIABLES
    \* agent fields (BaseAgent.__init__)
    max_iterations, output_schema, callback, tools,
    current_plan, execution_history, current_goal,
    \* locals of each process call
    pc, goal, iteration, plan, action, action_result, reflection,
    final_result, raised,
    \* history variables of the verification
    calls, session, trace, plan_context, completed, resets,
    \* the last direct call of is_goal_achieved: its arguments and its value
    probe,
    \* every tool registered so far, in the order of registration; the uid
    \* of a tool is its rank in this list
    added,
    \* how the caller's previous call ended and what it reported
    earlier,
    \* whether a call was ever started while another was running
    overlapped,
    \* the identity of the list object self.execution_history is bound to
    history_ref,
    \* the result the caller keeps from its previous call: the identity of
    \* the list it holds, its cycles when it was returned, and the cycles of
    \* that list object when the agent dropped it
    kept

agentVars == <<max_iterations, output_schema, callback, tools,
               current_plan, execution_history, current_goal>>
localVars == <<pc, goal, iteration, plan, action, action_result, reflection,
               final_result, raised>>
ghostVars == <<calls, session, trace, plan_context, completed, resets, probe,
               added, earlier, overlapped, history_ref, kept>>
vars == <<agentVars, localVars, ghostVars>>

\* ------------------------------------------------------ pure functions

\* Python's lst[-n:]
LastN(s, n) == IF Len(s) <= n THEN s ELSE SubSeq(s, Len(s) - n + 1, Len(s))

\* BaseAgent.is_goal_achieved, the default implementation.
\* dict.get("reflection", {}) and .get("action_successful", False).
is_goal_achieved_last_wrong(g, history) ==
    IF history = <<>> THEN FALSE
    ELSE LET last_cycle == history[1]
             last_reflection ==
                 IF "reflection" \in DOMAIN last_cycle
                 THEN last_cycle.reflection ELSE [none |-> TRUE]
         IN  IF "action_successful" \in DOMAIN last_reflection
             THEN last_reflection.action_successful ELSE FALSE

is_goal_achieved_any_success(g, history) ==
    \E k \in 1..Len(history) :
        /\ "reflection" \in DOMAIN history[k]
        /\ "action_successful" \in DOMAIN history[k].reflection
        /\ history[k].reflection.action_successful

is_goal_achieved(g, history) ==
    IF history = <<>> THEN FALSE
    ELSE LET last_cycle == history[Len(history)]
             last_reflection ==
                 IF "reflection" \in DOMAIN last_cycle
                 THEN last_cycle.reflection ELSE [none |-> TRUE]
         IN  IF "action_successful" \in DOMAIN last_reflection
             THEN last_reflection.action_successful ELSE FALSE

\* BaseAgent.add_tool
add_tool(registry, tool) == Append(registry, tool)

\* BaseAgent.remove_tool
remove_tool_first_only(registry, tool_name) ==
    LET hits == {i \in 1..Len(registry) : registry[i].name = tool_name}
    IN  IF hits = {} THEN registry
        ELSE LET k == CHOOSE i \in hits : \A j \in hits : i <= j
             IN  SubSeq(registry, 1, k - 1) \o SubSeq(registry, k + 1, Len(registry))

remove_tool(registry, tool_name) ==
    LET keep(tool) == tool.name # tool_name
    IN  SelectSeq(registry, keep)

\* BaseAgent.get_tool: index of the first tool with that name, 0 for None
get_tool_last(registry, tool_name) ==
    LET hits == {i \in 1..Len(registry) : registry[i].name = tool_name}
    IN  IF hits = {} THEN 0
        ELSE CHOOSE i \in hits : \A j \in hits : i >= j

get_tool(registry, tool_name) ==
    LET hits == {i \in 1..Len(registry) : registry[i].name = tool_name}
    IN  IF hits = {} THEN 0
        ELSE CHOOSE i \in hits : \A j \in hits : i <= j

\* BaseAgent.list_tools
list_tools(registry) == [i \in 1..Len(registry) |-> registry[i].name]

\* the three results of BaseAgent._execute_action that need no tool call
DirectResult ==
    [type |-> "direct_response",
     result |-> "Task completed directly without tool usage",
     success |-> TRUE]

NotFoundResult(a) ==
    [type |-> "error", result |-> "Tool '" \o a.tool_name \o "' not found",
     success |-> FALSE]

ToolReturned(a, value) ==
    [type |-> "tool_execution", tool_name |-> a.tool_name,
     parameters |-> a.tool_parameters, result |-> value, success |-> TRUE]

ToolRaisedFlaggedSuccess(a) ==
    [type |-> "error", tool_name |-> a.tool_name,
     parameters |-> a.tool_parameters, result |-> "Error executing tool",
     success |-> TRUE]

ToolRaised(a) ==
    [type |-> "error", tool_name |-> a.tool_name,
     parameters |-> a.tool_parameters, result |-> "Error executing tool",
     success |-> FALSE]

\* the default mapping of BaseAgent._generate_final_result
DefaultResultLastCycle(g, history) ==
    [goal |-> g, achieved |-> is_goal_achieved(g, history),
     iterations |-> Len(history), execution_history |-> LastN(history, 1)]

DefaultResult(g, history) ==
    [goal |-> g, achieved |-> is_goal_achieved(g, history),
     iterations |-> Len(history), execution_history |-> history]

\* the input of the final model call (lines 286-292, without the agent's
\* description)
FinalContextLastCycle(g, history) ==
    [goal |-> g, execution_history |-> LastN(history, 1),
     goal_achieved |-> is_goal_achieved(g, history),
     iterations |-> Len(history)]

FinalContext(g, history) ==
    [goal |-> g, execution_history |-> history,
     goal_achieved |-> is_goal_achieved(g, history),
     iterations |-> Len(history)]

\* a value shaped to the output schema, as the model returns it
StructuredResult == [structured |-> TRUE]

\* ------------------------------------------------------------ the trace
\* trace[t] lists what the call of thread t has done so far: the steps
\* "plan", "decide", "execute", "tool", "reflect", "store", "finalize",
\* "final_call", the events handed to _emit_status, and "model_failed"
\* when a model invocation did not return.
Step(t, s) == [iteration |-> iteration[t], step |-> s]
\* a model invocation s and what became of it
Invocation(t, s, outcome) ==
    IF outcome = "fails" THEN <<Step(t, s), Step(t, "model_failed")>>
    ELSE <<Step(t, s)>>
\* the final model invocation, with its input
FinalInvocation(t, outcome) ==
    LET call == [iteration |-> iteration[t], step |-> "final_call",
                 context |-> FinalContext(goal[t], execution_history)]
    IN  IF outcome = "fails" THEN <<call, Step(t, "model_failed")>>
        ELSE <<call>>
Count(t, s) == Cardinality({i \in 1..Len(trace[t]) : trace[t][i].step = s})
CountIn(t, s, k) ==
    Cardinality({i \in 1..Len(trace[t]) :
                    trace[t][i].step = s /\ trace[t][i].iteration = k})

EventOfSwapped(p) ==
    CASE p = "emit_goal_start" -> "goal_start"
      [] p = "emit_plan_created" -> "plan_created"
      [] p = "emit_action_decided" -> "action_executed"
      [] p = "emit_action_executed" -> "action_decided"
      [] p = "emit_reflection_completed" -> "reflection_completed"
      [] p = "emit_goal_completed" -> "goal_completed"

EventOf(p) ==
    CASE p = "emit_goal_start" -> "goal_start"
      [] p = "emit_plan_created" -> "plan_created"
      [] p = "emit_action_decided" -> "action_decided"
      [] p = "emit_action_executed" -> "action_executed"
      [] p = "emit_reflection_completed" -> "reflection_completed"
      [] p = "emit_goal_completed" -> "goal_completed"

AfterEmitReflectionEndsCall(p) ==
    CASE p = "emit_goal_start" -> "loop"
      [] p = "emit_plan_created" -> "check"
      [] p = "emit_action_decided" -> "execute"
      [] p = "emit_action_executed" -> "reflect"
      [] p = "emit_reflection_completed" -> "finalize"
      [] p = "emit_goal_completed" -> "done"

AfterEmit(p) ==
    CASE p = "emit_goal_start" -> "loop"
      [] p = "emit_plan_created" -> "check"
      [] p = "emit_action_decided" -> "execute"
      [] p = "emit_action_executed" -> "reflect"
      [] p = "emit_reflection_completed" -> "store"
      [] p = "emit_goal_completed" -> "done"

EmitPcs == {"emit_goal_start", "emit_plan_created", "emit_action_decided",
            "emit_action_executed", "emit_reflection_completed",
            "emit_goal_completed"}

Resting == {"idle", "done", "aborted"}

\* ----------------------------------------------------------------- Init
Init ==
    /\ max_iterations \in 0..MaxIter
    /\ output_schema \in BOOLEAN
    /\ callback \in CallbackKinds
    /\ tools \in InitTools
    /\ current_plan = NoneVal
    /\ execution_history = <<>>
    /\ current_goal = NoneVal
    /\ pc = [t \in Threads |-> "idle"]
    /\ goal = [t \in Threads |-> NoneVal]
    /\ iteration = [t \in Threads |-> 0]
    /\ plan = [t \in Threads |-> NoneVal]
    /\ action = [t \in Threads |-> NoneVal]
    /\ action_result = [t \in Threads |-> NoneVal]
    /\ reflection = [t \in Threads |-> NoneVal]
    /\ final_result = [t \in Threads |-> NoneVal]
    /\ raised = [t \in Threads |-> "none"]
    /\ calls = 0
    /\ session = [t \in Threads |-> 0]
    /\ trace = [t \in Threads |-> <<>>]
    /\ plan_context = [t \in Threads |-> <<>>]
    /\ completed = [t \in Threads |-> NoneVal]
    /\ resets = [t \in Threads |-> 0]
    /\ probe = NoneVal
    /\ added = tools
    /\ earlier = [t \in Threads |-> NoneVal]
    /\ overlapped = FALSE
    /\ history_ref = 0
    /\ kept = [t \in Threads |-> NoneVal]

\* -------------------------------------------------------------- actions

\* process, lines 322-323 and 343: a new call binds its goal and resets
\* the history; the locals of the call are fresh.
\* the list object made by the [] of line 323: the n-th made for the agent
cleared_list(ref, n) == ref

fresh_list(ref, n) == n

ProcessEntryNoReset(t, g) ==
    /\ current_goal' = [goal |-> g]
    /\ execution_history' = execution_history
    /\ history_ref' = history_ref
    /\ resets' = [resets EXCEPT ![t] = 0]
    /\ UNCHANGED current_plan

ProcessEntryClearsPlan(t, g) ==
    /\ current_goal' = [goal |-> g]
    /\ execution_history' = <<>>
    /\ history_ref' = fresh_list(history_ref, calls + 1)
    /\ resets' = [resets EXCEPT ![t] = 1]
    /\ current_plan' = NoneVal

ProcessEntry(t, g) ==
    /\ current_goal' = [goal |-> g]
    /\ execution_history' = <<>>
    /\ history_ref' = fresh_list(history_ref, calls + 1)
    /\ resets' = [resets EXCEPT ![t] = 1]
    /\ UNCHANGED current_plan

StartCall(t) ==
    /\ pc[t] \in Resting
    /\ calls < MaxCalls
    /\ \E g \in Goals :
        /\ ProcessEntry(t, g)
        /\ goal' = [goal EXCEPT ![t] = g]
    /\ iteration' = [iteration EXCEPT ![t] = 0]
    /\ plan' = [plan EXCEPT ![t] = NoneVal]
    /\ action' = [action EXCEPT ![t] = NoneVal]
    /\ action_result' = [action_result EXCEPT ![t] = NoneVal]
    /\ reflection' = [reflection EXCEPT ![t] = NoneVal]
    /\ final_result' = [final_result EXCEPT ![t] = NoneVal]
    /\ raised' = [raised EXCEPT ![t] = "none"]
    /\ calls' = calls + 1
    /\ session' = [session EXCEPT ![t] = calls + 1]
    /\ trace' = [trace EXCEPT ![t] = <<>>]
    /\ plan_context' = [plan_context EXCEPT ![t] = <<>>]
    /\ completed' = [completed EXCEPT ![t] = NoneVal]
    /\ pc' = [pc EXCEPT ![t] = "emit_goal_start"]
    /\ UNCHANGED <<max_iterations, output_schema, callback, tools, probe,
                   added>>

Start(t) == StartCall(t) /\ UNCHANGED <<earlier, overlapped, kept>>

\* the same entry, noting how the call before it ended: whether its loop
\* stopped on a plan's goal_achieved, and the achieved status it reported
StartNoting(t) ==
    /\ StartCall(t)
    /\ earlier' = [earlier EXCEPT ![t] =
                      IF completed[t] = NoneVal THEN NoneVal
                      ELSE [by_flag |-> plan[t] # NoneVal /\ plan[t].goal_achieved,
                            achieved |-> completed[t].achieved]]
    /\ UNCHANGED <<overlapped, kept>>

\* a call started by one of several callers that do not wait for each other
StartOverlapping(t) ==
    /\ StartCall(t)
    /\ overlapped' = (overlapped \/ \E u \in Threads \ {t} : pc[u] \notin Resting)
    /\ UNCHANGED <<earlier, kept>>

\* a call started by a caller that still holds the result of its last call
StartKeeping(t) ==
    /\ StartCall(t)
    /\ kept' = [kept EXCEPT ![t] =
                   IF pc[t] = "done"
                   THEN [ref |-> history_ref,
                         returned |-> final_result[t].execution_history,
                         cells |-> execution_history]
                   ELSE NoneVal]
    /\ UNCHANGED <<earlier, overlapped>>

\* the loop condition of line 344
LoopCondInclusive(i, n) == i <= n

LoopCondDoWhile(i, n) == i = 0 \/ i < n

LoopCondStopsEarly(i, n) == i < n - 1

LoopCond(i, n) == i < n

\* BaseAgent.call_llm has no handler, nor has process: a failure of the
\* model invocation leaves the call at once.
call_llm_swallowing(outcome) == [raises |-> FALSE]

call_llm(outcome) == [raises |-> outcome = "fails"]

ModelOutcomes == {"returns", "fails"}
ToolOutcomes == {"returns", "raises"}

\* the history handed to the Plan step (line 190)
HistoryWindow == 3
PlanHistoryContextOldest(history) ==
    IF history # <<>>
    THEN SubSeq(history, 1, IF Len(history) <= HistoryWindow
                            THEN Len(history) ELSE HistoryWindow)
    ELSE <<>>

PlanHistoryContext(history) ==
    IF history # <<>> THEN LastN(history, HistoryWindow) ELSE <<>>

\* BaseAgent._emit_status: the callback is called when there is one, and
\* an Exception it raises is caught.
emit_status_uncaught(cb) ==
    [called |-> cb # "none", raises |-> cb = "raises"]

emit_status(cb) ==
    [called |-> cb # "none", raises |-> FALSE]

\* BaseAgent._execute_action.  outcome is what the tool's execute does if
\* it is called; called is the index of the tool executed, 0 for none.
execute_action_tool_error_escapes(registry, a, outcome) ==
    IF a.tool_name = "direct_response"
    THEN [result |-> DirectResult, called |-> 0, raises |-> FALSE]
    ELSE LET i == get_tool(registry, a.tool_name)
         IN  IF i = 0
             THEN [result |-> NotFoundResult(a), called |-> 0, raises |-> FALSE]
             ELSE IF outcome = "returns"
             THEN [result |-> ToolReturned(a, "7.0"), called |-> i,
                   raises |-> FALSE]
             ELSE [result |-> NoneVal, called |-> i, raises |-> TRUE]

execute_action_missing_tool_raises(registry, a, outcome) ==
    IF a.tool_name = "direct_response"
    THEN [result |-> DirectResult, called |-> 0, raises |-> FALSE]
    ELSE LET i == get_tool(registry, a.tool_name)
         IN  IF i = 0
             THEN [result |-> NoneVal, called |-> 0, raises |-> TRUE]
             ELSE IF outcome = "returns"
             THEN [result |-> ToolReturned(a, "7.0"), called |-> i,
                   raises |-> FALSE]
             ELSE [result |-> ToolRaised(a), called |-> i, raises |-> FALSE]

execute_action_lookup_first(registry, a, outcome) ==
    LET i == get_tool(registry, a.tool_name)
    IN  IF i # 0
        THEN IF outcome = "returns"
             THEN [result |-> ToolReturned(a, "7.0"), called |-> i,
                   raises |-> FALSE]
             ELSE [result |-> ToolRaised(a), called |-> i, raises |-> FALSE]
        ELSE IF a.tool_name = "direct_response"
        THEN [result |-> DirectResult, called |-> 0, raises |-> FALSE]
        ELSE [result |-> NotFoundResult(a), called |-> 0, raises |-> FALSE]

execute_action_no_sentinel(registry, a, outcome) ==
    LET i == get_tool(registry, a.tool_name)
    IN  IF i = 0
        THEN [result |-> NotFoundResult(a), called |-> 0, raises |-> FALSE]
        ELSE IF outcome = "returns"
        THEN [result |-> ToolReturned(a, "7.0"), called |-> i,
              raises |-> FALSE]
        ELSE [result |-> ToolRaised(a), called |-> i, raises |-> FALSE]

execute_action(registry, a, outcome) ==
    IF a.tool_name = "direct_response"
    THEN [result |-> DirectResult, called |-> 0, raises |-> FALSE]
    ELSE LET i == get_tool(registry, a.tool_name)
         IN  IF i = 0
             THEN [result |-> NotFoundResult(a), called |-> 0, raises |-> FALSE]
             ELSE IF outcome = "returns"
             THEN [result |-> ToolReturned(a, "7.0"), called |-> i,
                   raises |-> FALSE]
             ELSE [result |-> ToolRaised(a), called |-> i, raises |-> FALSE]

\* the cycle of lines 414-421 (without its timestamp)
CycleZeroBased(i, p, a, ar, r) ==
    [iteration |-> i - 1, plan |-> p, action |-> a, action_result |-> ar,
     reflection |-> r]

Cycle(i, p, a, ar, r) ==
    [iteration |-> i, plan |-> p, action |-> a, action_result |-> ar,
     reflection |-> r]

\* the break of lines 371-374
GoalBreakIgnored(p) == FALSE

GoalBreak(p) == p.goal_achieved

\* an exception leaves process
Abort(t, kind) ==
    /\ pc' = [pc EXCEPT ![t] = "aborted"]
    /\ raised' = [raised EXCEPT ![t] = kind]

\* _emit_status at each of its six call sites in process, for an agent
\* whose callback is cb
EmitStatusWith(t, cb) ==
    /\ pc[t] \in EmitPcs
    /\ trace' = [trace EXCEPT ![t] = Append(@, Step(t, EventOf(pc[t])))]
    /\ completed' =
         IF pc[t] = "emit_goal_completed"
         THEN [completed EXCEPT ![t] =
                 [goal |-> goal[t],
                  achieved |-> is_goal_achieved(goal[t], execution_history),
                  iterations |-> iteration[t],
                  final_result |-> final_result[t]]]
         ELSE completed
    /\ IF emit_status(cb).raises
       THEN Abort(t, "CallbackError")
       ELSE /\ pc' = [pc EXCEPT ![t] = AfterEmit(pc[t])]
            /\ UNCHANGED raised
    /\ UNCHANGED <<agentVars, goal, iteration, plan, action, action_result,
                   reflection, final_result, calls, session, plan_context,
                   resets, probe, added, earlier, overlapped,
                   history_ref, kept>>

EmitStatus(t) == EmitStatusWith(t, callback)

\* while iteration < self.max_iterations: iteration += 1
LoopTest(t) ==
    /\ pc[t] = "loop"
    /\ IF LoopCond(iteration[t], max_iterations)
       THEN /\ iteration' = [iteration EXCEPT ![t] = @ + 1]
            /\ pc' = [pc EXCEPT ![t] = "plan"]
       ELSE /\ pc' = [pc EXCEPT ![t] = "finalize"]
            /\ UNCHANGED iteration
    /\ UNCHANGED <<agentVars, goal, plan, action, action_result, reflection,
                   final_result, raised, ghostVars>>

\* plan = self._create_plan(goal, ...)
CreatePlan(t) ==
    /\ pc[t] = "plan"
    /\ plan_context' =
         [plan_context EXCEPT ![t] = PlanHistoryContext(execution_history)]
    /\ \E outcome \in ModelOutcomes :
         IF call_llm(outcome).raises
         THEN /\ Abort(t, "ModelInvocationError")
              /\ trace' = [trace EXCEPT ![t] = @ \o Invocation(t, "plan", outcome)]
              /\ UNCHANGED plan
         ELSE /\ \E b \in BOOLEAN :
                   plan' = [plan EXCEPT ![t] =
                              [goal_achieved |-> b,
                               id |-> <<session[t], iteration[t]>>]]
              /\ trace' = [trace EXCEPT ![t] = @ \o Invocation(t, "plan", outcome)]
              /\ pc' = [pc EXCEPT ![t] = "emit_plan_created"]
              /\ UNCHANGED raised
    /\ UNCHANGED <<agentVars, goal, iteration, action, action_result,
                   reflection, final_result, calls, session, completed, resets, probe, added, earlier, overlapped,
                   history_ref, kept>>

\* if plan.goal_achieved: break
CheckGoal(t) ==
    /\ pc[t] = "check"
    /\ pc' = [pc EXCEPT ![t] = IF GoalBreak(plan[t]) THEN "finalize" ELSE "decide"]
    /\ UNCHANGED <<agentVars, goal, iteration, plan, action, action_result,
                   reflection, final_result, raised, ghostVars>>

\* action = self._decide_action(plan, ...)
DecideAction(t) ==
    /\ pc[t] = "decide"
    /\ \E outcome \in ModelOutcomes :
         IF call_llm(outcome).raises
         THEN /\ Abort(t, "ModelInvocationError")
              /\ trace' = [trace EXCEPT ![t] = @ \o Invocation(t, "decide", outcome)]
              /\ UNCHANGED action
         ELSE /\ \E n \in ActionNames, ps \in Params :
                   action' = [action EXCEPT ![t] =
                                [tool_name |-> n, tool_parameters |-> ps]]
              /\ trace' = [trace EXCEPT ![t] = @ \o Invocation(t, "decide", outcome)]
              /\ pc' = [pc EXCEPT ![t] = "emit_action_decided"]
              /\ UNCHANGED raised
    /\ UNCHANGED <<agentVars, goal, iteration, plan, action_result,
                   reflection, final_result, calls, session, plan_context,
                   completed, resets, probe, added, earlier, overlapped,
                   history_ref, kept>>

\* action_result = self._execute_action(action)
ExecuteAction(t) ==
    /\ pc[t] = "execute"
    /\ \E outcome \in ToolOutcomes :
         LET r == execute_action(tools, action[t], outcome)
             did == IF r.called = 0 THEN <<Step(t, "execute")>>
                    ELSE <<Step(t, "execute"),
                           [iteration |-> iteration[t], step |-> "tool",
                            tool |-> tools[r.called].name,
                            outcome |-> outcome]>>
         IN  /\ trace' = [trace EXCEPT ![t] = @ \o did]
             /\ IF r.raises
                THEN /\ Abort(t, "ToolError")
                     /\ UNCHANGED action_result
                ELSE /\ action_result' = [action_result EXCEPT ![t] = r.result]
                     /\ pc' = [pc EXCEPT ![t] = "emit_action_executed"]
                     /\ UNCHANGED raised
    /\ UNCHANGED <<agentVars, goal, iteration, plan, action, reflection,
                   final_result, calls, session, plan_context, completed,
                   resets, probe, added, earlier, overlapped,
                   history_ref, kept>>

\* reflection = self._reflect_on_result(action, action_result, plan, ...)
ReflectOnResultRecordsFailure(t) ==
    /\ pc[t] = "reflect"
    /\ \E outcome \in ModelOutcomes :
         IF call_llm(outcome).raises
         THEN /\ Abort(t, "ModelInvocationError")
              /\ trace' = [trace EXCEPT ![t] = @ \o Invocation(t, "reflect", outcome)]
              /\ execution_history' =
                   Append(execution_history,
                          Cycle(iteration[t], plan[t], action[t],
                                action_result[t], NoneVal))
              /\ UNCHANGED reflection
         ELSE /\ \E b \in BOOLEAN :
                   reflection' = [reflection EXCEPT ![t] =
                                    [action_successful |-> b]]
              /\ trace' = [trace EXCEPT ![t] = @ \o Invocation(t, "reflect", outcome)]
              /\ pc' = [pc EXCEPT ![t] = "emit_reflection_completed"]
              /\ UNCHANGED <<raised, execution_history>>
    /\ UNCHANGED <<max_iterations, output_schema, callback, tools, current_plan,
                   current_goal, goal, iteration, plan, action, action_result,
                   final_result, calls, session, plan_context, completed,
                   resets, probe, added, earlier, overlapped, history_ref, kept>>

ReflectOnResult(t) ==
    /\ pc[t] = "reflect"
    /\ \E outcome \in ModelOutcomes :
         IF call_llm(outcome).raises
         THEN /\ Abort(t, "ModelInvocationError")
              /\ trace' = [trace EXCEPT ![t] = @ \o Invocation(t, "reflect", outcome)]
              /\ UNCHANGED reflection
         ELSE /\ \E b \in BOOLEAN :
                   reflection' = [reflection EXCEPT ![t] =
                                    [action_successful |-> b]]
              /\ trace' = [trace EXCEPT ![t] = @ \o Invocation(t, "reflect", outcome)]
              /\ pc' = [pc EXCEPT ![t] = "emit_reflection_completed"]
              /\ UNCHANGED raised
    /\ UNCHANGED <<agentVars, goal, iteration, plan, action, action_result,
                   final_result, calls, session, plan_context, completed,
                   resets, probe, added, earlier, overlapped,
                   history_ref, kept>>

\* where process goes when it has recorded a cycle (lines 422-432): back
\* to the while test; nothing there reads the recorded reflection
AfterStoreStopOnSuccess(g, history) ==
    IF is_goal_achieved(g, history) THEN "finalize" ELSE "loop"

AfterStore(g, history) == "loop"

\* self.execution_history.append(cycle)
append_cycle_in_front(history, cycle) == <<cycle>> \o history

append_cycle(history, cycle) == Append(history, cycle)

\* self.execution_history.append(cycle); self.current_plan = plan
StoreCycleKeepsPlan(t) ==
    /\ pc[t] = "store"
    /\ execution_history' =
         append_cycle(execution_history,
                      Cycle(iteration[t], plan[t], action[t], action_result[t],
                            reflection[t]))
    /\ trace' = [trace EXCEPT ![t] = Append(@, Step(t, "store"))]
    /\ pc' = [pc EXCEPT ![t] = AfterStore(goal[t], execution_history')]
    /\ UNCHANGED <<max_iterations, output_schema, callback, tools,
                   current_plan, current_goal, goal, iteration, plan, action,
                   action_result, reflection, final_result, raised, calls,
                   session, plan_context, completed, resets, probe, added,
                   earlier, overlapped, history_ref, kept>>

StoreCycle(t) ==
    /\ pc[t] = "store"
    /\ execution_history' =
         append_cycle(execution_history,
                      Cycle(iteration[t], plan[t], action[t], action_result[t],
                            reflection[t]))
    /\ current_plan' = plan[t]
    /\ trace' = [trace EXCEPT ![t] = Append(@, Step(t, "store"))]
    /\ pc' = [pc EXCEPT ![t] = AfterStore(goal[t], execution_history')]
    /\ UNCHANGED <<max_iterations, output_schema, callback, tools,
                   current_goal, goal, iteration, plan, action, action_result,
                   reflection, final_result, raised, calls, session,
                   plan_context, completed, resets, probe, added, earlier, overlapped,
                   history_ref, kept>>

\* final_result = self._generate_final_result(goal, self.execution_history, ...)
GenerateFinalResult(t) ==
    /\ pc[t] = "finalize"
    /\ IF ~output_schema
       THEN /\ final_result' = [final_result EXCEPT ![t] =
                                  DefaultResult(goal[t], execution_history)]
            /\ trace' = [trace EXCEPT ![t] = Append(@, Step(t, "finalize"))]
            /\ pc' = [pc EXCEPT ![t] = "emit_goal_completed"]
            /\ UNCHANGED raised
       ELSE \E outcome \in ModelOutcomes :
              IF call_llm(outcome).raises
              THEN /\ Abort(t, "ModelInvocationError")
                   /\ trace' = [trace EXCEPT ![t] =
                                  @ \o <<Step(t, "finalize")>>
                                    \o FinalInvocation(t, outcome)]
                   /\ UNCHANGED final_result
              ELSE /\ final_result' = [final_result EXCEPT ![t] = StructuredResult]
                   /\ trace' = [trace EXCEPT ![t] =
                                  @ \o <<Step(t, "finalize")>>
                                    \o FinalInvocation(t, outcome)]
                   /\ pc' = [pc EXCEPT ![t] = "emit_goal_completed"]
                   /\ UNCHANGED raised
    /\ UNCHANGED <<agentVars, goal, iteration, plan, action, action_result,
                   reflection, calls, session, plan_context, completed, resets, probe, added, earlier, overlapped,
                   history_ref, kept>>

\* is_goal_achieved called directly, on any history a caller may pass:
\* cycles of either plan flag, with a reflection, with a reflection that
\* lacks action_successful, or with no reflection at all.
MaxHist == 2
ProbePlans == {[goal_achieved |-> b] : b \in BOOLEAN}
ProbeCycles ==
    {[iteration |-> 1, plan |-> p, reflection |-> [action_successful |-> b]] :
        p \in ProbePlans, b \in BOOLEAN}
    \cup {[iteration |-> 1, plan |-> p, reflection |-> [thoughts |-> "t"]] :
            p \in ProbePlans}
    \cup {[iteration |-> 1, plan |-> p] : p \in ProbePlans}
HistoryInputs == UNION {[1..n -> ProbeCycles] : n \in 0..MaxHist}

IsGoalAchievedCall ==
    /\ \E g \in Goals, h \in HistoryInputs :
         probe' = [goal |-> g, history |-> h,
                   returned |-> is_goal_achieved(g, h)]
    /\ UNCHANGED <<agentVars, localVars, calls, session, trace, plan_context,
                   completed, resets, added, earlier, overlapped,
                   history_ref, kept>>

\* add_tool and remove_tool called on the agent, between process calls
MaxAdds == 4
RegistryNames == {"add", "subtract", "direct_response"}

AddToolCall ==
    /\ Len(added) < MaxAdds
    /\ \E n \in RegistryNames :
         LET tool == [name |-> n, uid |-> Len(added) + 1]
         IN  /\ tools' = add_tool(tools, tool)
             /\ added' = Append(added, tool)
    /\ UNCHANGED <<max_iterations, output_schema, callback, current_plan,
                   execution_history, current_goal, localVars, calls, session,
                   trace, plan_context, completed, resets, probe, earlier,
                   overlapped, history_ref, kept>>

RemoveToolCall ==
    /\ \E n \in RegistryNames : tools' = remove_tool(tools, n)
    /\ UNCHANGED <<max_iterations, output_schema, callback, current_plan,
                   execution_history, current_goal, localVars, ghostVars>>

\* ------------------------------------------------- the specifications
\* the steps of a process call of thread t on an agent whose callback is cb
Run(t, cb) ==
    \/ EmitStatusWith(t, cb)
    \/ LoopTest(t)
    \/ CreatePlan(t)
    \/ CheckGoal(t)
    \/ DecideAction(t)
    \/ ExecuteAction(t)
    \/ ReflectOnResult(t)
    \/ StoreCycle(t)
    \/ GenerateFinalResult(t)

\* Calls on the agent are serialized by the caller: one caller, which
\* makes its next call when the last one has returned or failed.
Next ==
    \/ Start(Caller)
    \/ EmitStatus(Caller)
    \/ LoopTest(Caller)
    \/ CreatePlan(Caller)
    \/ CheckGoal(Caller)
    \/ DecideAction(Caller)
    \/ ExecuteAction(Caller)
    \/ ReflectOnResult(Caller)
    \/ StoreCycle(Caller)
    \/ GenerateFinalResult(Caller)

Spec == Init /\ [][Next]_vars

\* process is synchronous: a call that has started keeps taking steps until
\* it returns or fails.
\* one process call, run to its end
NextOneCall ==
    \/ calls = 0 /\ Start(Caller)
    \/ Run(Caller, callback)

FairOneCall == Init /\ [][NextOneCall]_vars /\ WF_vars(Run(Caller, callback))

\* one process call, which may be cut short anywhere
SpecOneCall == Init /\ [][NextOneCall]_vars

\* serialized calls on an agent with the default result and no callback,
\* each call remembering the report of the one before
InitReports ==
    /\ Init
    /\ ~output_schema
    /\ callback = "none"
    /\ tools = <<AddTool>>

NextReports ==
    \/ StartNoting(Caller)
    \/ Run(Caller, callback)

SpecReports == InitReports /\ [][NextReports]_vars

\* the tool registry of an agent at rest
InitRegistry ==
    /\ Init
    /\ max_iterations = MaxIter
    /\ ~output_schema
    /\ callback = "none"

NextRegistry ==
    \/ AddToolCall
    \/ RemoveToolCall

SpecRegistry == InitRegistry /\ [][NextRegistry]_vars

\* two callers of one agent that do not wait for each other, each making
\* one call: the steps of their process calls interleave
InitConcurrent ==
    /\ Init
    /\ max_iterations = 1
    /\ ~output_schema
    /\ callback = "none"
    /\ tools = <<AddTool>>

NextConcurrent ==
    \E t \in Threads :
        \/ session[t] = 0 /\ StartOverlapping(t)
        \/ Run(t, callback)

SpecConcurrent == InitConcurrent /\ [][NextConcurrent]_vars

\* serialized calls by a caller that keeps the result of its last call;
\* the result's execution_history is the list object the agent was bound
\* to when the call returned (line 283 stores the list it is given)
InitKept ==
    /\ Init
    /\ max_iterations = 1
    /\ ~output_schema
    /\ callback = "none"
    /\ tools = <<AddTool>>

NextKept ==
    \/ StartKeeping(Caller)
    \/ Run(Caller, callback)

SpecKept == InitKept /\ [][NextKept]_vars

\* the cycles now in the list a kept result refers to
HeldHistory(t) ==
    IF kept[t].ref = history_ref THEN execution_history ELSE kept[t].cells

\* one long call: an agent built with max_iterations = MaxLong, whose
\* model never fails and always decides on the add tool, which returns
MaxLong == 5

InitLong ==
    /\ max_iterations = MaxLong
    /\ output_schema = FALSE
    /\ callback = "none"
    /\ tools = <<AddTool>>
    /\ current_plan = NoneVal
    /\ execution_history = <<>>
    /\ current_goal = NoneVal
    /\ pc = [t \in Threads |-> "idle"]
    /\ goal = [t \in Threads |-> NoneVal]
    /\ iteration = [t \in Threads |-> 0]
    /\ plan = [t \in Threads |-> NoneVal]
    /\ action = [t \in Threads |-> NoneVal]
    /\ action_result = [t \in Threads |-> NoneVal]
    /\ reflection = [t \in Threads |-> NoneVal]
    /\ final_result = [t \in Threads |-> NoneVal]
    /\ raised = [t \in Threads |-> "none"]
    /\ calls = 0
    /\ session = [t \in Threads |-> 0]
    /\ trace = [t \in Threads |-> <<>>]
    /\ plan_context = [t \in Threads |-> <<>>]
    /\ completed = [t \in Threads |-> NoneVal]
    /\ resets = [t \in Threads |-> 0]
    /\ probe = NoneVal
    /\ added = tools
    /\ earlier = [t \in Threads |-> NoneVal]
    /\ overlapped = FALSE
    /\ history_ref = 0
    /\ kept = [t \in Threads |-> NoneVal]

AddToolReturns ==
    /\ raised[Caller] = "none"
    /\ action[Caller] # NoneVal => action[Caller].tool_name = "add"
    /\ action_result[Caller] # NoneVal => action_result[Caller].success

NextLong ==
    \/ calls = 0 /\ Start(Caller)
    \/ Run(Caller, callback) /\ AddToolReturns'

SpecLong == InitLong /\ [][NextLong]_vars

\* direct calls of the goal-achieved predicate, on one agent
InitPredicate ==
    /\ Init
    /\ max_iterations = MaxIter
    /\ ~output_schema
    /\ callback = "none"
    /\ tools = <<AddTool>>

NextPredicate == IsGoalAchievedCall

SpecPredicate == InitPredicate /\ [][NextPredicate]_vars

\* ------------------------------------------------------------ the claims
Registered(n) == get_tool(tools, n) # 0
ToolRaisedIn(t, k) ==
    \E i \in 1..Len(trace[t]) :
        /\ trace[t][i].step = "tool"
        /\ trace[t][i].iteration = k
        /\ trace[t][i].outcome = "raises"
ModelFailed(t) == Count(t, "model_failed") > 0
MissingTool(a) ==
    /\ a # NoneVal
    /\ a.tool_name # "direct_response"
    /\ ~Registered(a.tool_name)
AfterExecute == {"emit_action_executed", "reflect",
                 "emit_reflection_completed", "store"}

\* C1: one process call makes at most max_iterations Plan invocations and
\* records at most max_iterations cycles, whatever the model and the tools do.
C1_BoundedIterations ==
    \A t \in Threads :
        /\ Count(t, "plan") <= max_iterations
        /\ Len(execution_history) <= max_iterations
        /\ iteration[t] <= max_iterations

C1_Witness ==
    /\ max_iterations >= 2
    /\ pc[Caller] = "done"
    /\ Count(Caller, "plan") = max_iterations
    /\ Len(execution_history) = max_iterations

\* C2: when the Plan step reports goal_achieved in iteration k, the call has
\* made exactly k Plan invocations and recorded exactly k-1 cycles, it runs
\* no Decide-Action, Execute, tool or Reflect step in iteration k, and it
\* goes on to finalization only.
C2_StopOnGoalAchieved ==
    \A t \in Threads :
        (plan[t] # NoneVal /\ plan[t].goal_achieved) =>
            LET k == iteration[t]
            IN  /\ k <= max_iterations
                /\ Count(t, "plan") = k
                /\ Len(execution_history) = k - 1
                /\ Count(t, "store") = k - 1
                /\ CountIn(t, "decide", k) = 0
                /\ CountIn(t, "execute", k) = 0
                /\ CountIn(t, "tool", k) = 0
                /\ CountIn(t, "reflect", k) = 0
                /\ pc[t] \in {"emit_plan_created", "check", "finalize",
                              "emit_goal_completed", "done", "aborted"}

C2_Witness ==
    /\ pc[Caller] = "done"
    /\ plan[Caller] # NoneVal
    /\ plan[Caller].goal_achieved
    /\ iteration[Caller] = 2
    /\ Len(execution_history) = 1

\* C3: in every state the iteration indices of the recorded cycles are
\* 1, 2, ..., len(execution_history), in this order.
C3_IterationIndices ==
    \A i \in 1..Len(execution_history) : execution_history[i].iteration = i

C3_Witness ==
    /\ Len(execution_history) >= 2
    /\ pc[Caller] = "done"

\* C4: an exception raised by a tool's execute becomes an ActionResult of
\* type error with success = false and never leaves process; the Reflect
\* step of that iteration still runs, and the call reaches final-result
\* generation unless a model invocation fails.
C4_ToolErrorContained ==
    \A t \in Threads :
        /\ raised[t] # "ToolError"
        /\ (pc[t] \in AfterExecute /\ ToolRaisedIn(t, iteration[t])) =>
              /\ action_result[t].type = "error"
              /\ action_result[t].success = FALSE
              /\ action_result[t].tool_name = action[t].tool_name
        /\ \A i \in 1..Len(execution_history) :
              ToolRaisedIn(t, i) =>
                  /\ execution_history[i].action_result.type = "error"
                  /\ ~execution_history[i].action_result.success
                  /\ CountIn(t, "reflect", i) = 1

C4_ToolErrorRecovered ==
    /\ []C4_ToolErrorContained
    /\ LET P == /\ pc[Caller] = "emit_action_executed"
                /\ ToolRaisedIn(Caller, iteration[Caller])
       IN  /\ P ~> /\ ToolRaisedIn(Caller, iteration[Caller])
                   /\ CountIn(Caller, "reflect", iteration[Caller]) = 1
           /\ P ~> \/ Count(Caller, "finalize") = 1
                   \/ ModelFailed(Caller)

C4_Witness ==
    /\ pc[Caller] = "done"
    /\ ToolRaisedIn(Caller, 1)
    /\ Len(execution_history) >= 1
    /\ execution_history[1].action_result.type = "error"

\* C5: an Action naming a tool that is neither registered nor
\* direct_response gives the error result "Tool '<name>' not found" with
\* success = false, without raising and without executing any tool; the
\* Reflect step still runs, the cycle is recorded and the loop goes on.
C5_MissingToolResult ==
    \A t \in Threads :
        /\ raised[t] \in {"none", "ModelInvocationError"}
        /\ (pc[t] \in AfterExecute /\ MissingTool(action[t])) =>
              /\ action_result[t] =
                    [type |-> "error",
                     result |-> "Tool '" \o action[t].tool_name \o "' not found",
                     success |-> FALSE]
              /\ CountIn(t, "tool", iteration[t]) = 0

C5_MissingToolRecovered ==
    /\ []C5_MissingToolResult
    /\ LET P == /\ pc[Caller] = "emit_action_executed"
                /\ MissingTool(action[Caller])
       IN  /\ P ~> /\ MissingTool(action[Caller])
                   /\ CountIn(Caller, "reflect", iteration[Caller]) = 1
           /\ P ~> \/ /\ pc[Caller] = "loop"
                      /\ iteration[Caller] >= 1
                      /\ Len(execution_history) = iteration[Caller]
                      /\ MissingTool(execution_history[iteration[Caller]].action)
                      /\ execution_history[iteration[Caller]].action_result
                            = action_result[Caller]
                      /\ action_result[Caller].type = "error"
                   \/ ModelFailed(Caller)

C5_Witness ==
    /\ pc[Caller] = "plan"
    /\ iteration[Caller] = 2
    /\ execution_history[1].action.tool_name = "multiply"
    /\ execution_history[1].action_result.result = "Tool 'multiply' not found"

\* C6: every step of a call on an agent whose callback raises on every
\* event is a step of the same call on an agent with no callback: the same
\* next program point, history, plan, result and exception state.
C6_RaisingObserverIsInvisible ==
    [][callback = "raises" => (Start(Caller) \/ Run(Caller, "none"))]_vars

C6_Witness ==
    /\ callback = "raises"
    /\ pc[Caller] = "done"
    /\ Len(execution_history) >= 1
    /\ final_result[Caller] # NoneVal
    /\ Count(Caller, "goal_completed") = 1

\* C7: a model invocation that fails (Plan, Decide-Action, Reflect or the
\* final-result call) ends the call at once with that failure: nothing runs
\* after it, there is no retry, no result and no goal_completed event.
C7_ModelFailureIsFatal ==
    \A t \in Threads :
        ModelFailed(t) =>
            /\ pc[t] = "aborted"
            /\ raised[t] = "ModelInvocationError"
            /\ final_result[t] = NoneVal
            /\ completed[t] = NoneVal
            /\ Count(t, "goal_completed") = 0
            /\ Count(t, "model_failed") = 1
            /\ trace[t][Len(trace[t])].step = "model_failed"

C7_Witness ==
    /\ pc[Caller] = "aborted"
    /\ raised[Caller] = "ModelInvocationError"
    /\ Count(Caller, "final_call") = 1
    /\ Len(execution_history) >= 1

\* C8: a process call resets execution_history exactly once, on entry and
\* so before its first Plan invocation; the history, the history handed to
\* any Plan step and the history in the result hold cycles of this call only.
OfSession(history, s) ==
    \A i \in 1..Len(history) : history[i].plan.id[1] = s

C8_HistoryResetPerCall ==
    \A t \in Threads :
        pc[t] # "idle" =>
            /\ resets[t] = 1
            /\ OfSession(execution_history, session[t])
            /\ OfSession(plan_context[t], session[t])
            /\ (Count(t, "plan") = 1 /\ pc[t] = "emit_plan_created") =>
                  plan_context[t] = <<>>
            /\ (final_result[t] # NoneVal /\ ~output_schema) =>
                  OfSession(final_result[t].execution_history, session[t])

C8_Witness ==
    /\ session[Caller] = 2
    /\ current_plan # NoneVal
    /\ current_plan.id[1] = 1
    /\ pc[Caller] = "done"
    /\ Count(Caller, "plan") = 1
    /\ plan_context[Caller] = <<>>
    /\ ~output_schema
    /\ final_result[Caller].execution_history = <<>>

\* C9: with max_iterations = 0 a call makes no Plan invocation and executes
\* no tool; it goes from goal_start straight to final-result generation, and
\* the default result is achieved = false, iterations = 0, empty history.
C9_ZeroIterations ==
    \A t \in Threads :
        (max_iterations = 0 /\ pc[t] # "idle") =>
            /\ Count(t, "plan") = 0
            /\ Count(t, "decide") = 0
            /\ Count(t, "tool") = 0
            /\ execution_history = <<>>
            /\ pc[t] = "finalize" => trace[t] = <<Step(t, "goal_start")>>
            /\ (final_result[t] # NoneVal /\ ~output_schema) =>
                  final_result[t] =
                      [goal |-> goal[t], achieved |-> FALSE, iterations |-> 0,
                       execution_history |-> <<>>]
            /\ pc[t] \in {"emit_goal_start", "loop", "finalize",
                          "emit_goal_completed", "done", "aborted"}

C9_Witness ==
    /\ max_iterations = 0
    /\ pc[Caller] = "done"
    /\ ~output_schema
    /\ final_result[Caller].iterations = 0

\* C10: is_goal_achieved returns true exactly when the history is not empty
\* and the reflection of its last cycle has action_successful = true; two
\* histories with the same last cycle's reflection get the same answer,
\* whatever their earlier cycles and their plans' goal_achieved flags.
LastSuccessful(h) ==
    /\ h # <<>>
    /\ "reflection" \in DOMAIN h[Len(h)]
    /\ "action_successful" \in DOMAIN h[Len(h)].reflection
    /\ h[Len(h)].reflection.action_successful = TRUE

SameLastReflection(h1, h2) ==
    /\ h1 # <<>>
    /\ h2 # <<>>
    /\ "reflection" \in DOMAIN h1[Len(h1)]
    /\ "reflection" \in DOMAIN h2[Len(h2)]
    /\ h1[Len(h1)].reflection = h2[Len(h2)].reflection

C10_GoalAchievedPredicate ==
    probe # NoneVal =>
        /\ probe.returned = LastSuccessful(probe.history)
        /\ \A h \in HistoryInputs :
              SameLastReflection(h, probe.history) =>
                  is_goal_achieved(probe.goal, h) = probe.returned

C10_Witness ==
    /\ probe # NoneVal
    /\ Len(probe.history) = 2
    /\ probe.returned = TRUE
    /\ "reflection" \in DOMAIN probe.history[1]
    /\ probe.history[1].reflection = [action_successful |-> FALSE]
    /\ probe.history[2].plan.goal_achieved = FALSE

\* C11: with no output schema, a call that does not fail returns the
\* mapping of its goal, the goal-achieved predicate of the final history,
\* the number of recorded cycles and the whole recorded history, and makes
\* no model call for it.
ModelCalls(t) ==
    Count(t, "plan") + Count(t, "decide") + Count(t, "reflect")
        + Count(t, "final_call")

C11_DefaultResult ==
    \A t \in Threads :
        /\ pc[t] = "done" => final_result[t] # NoneVal
        /\ (~output_schema /\ pc[t] \in {"emit_goal_completed", "done"}) =>
              /\ DOMAIN final_result[t] =
                    {"goal", "achieved", "iterations", "execution_history"}
              /\ final_result[t].goal = goal[t]
              /\ final_result[t].achieved = LastSuccessful(execution_history)
              /\ final_result[t].iterations = Count(t, "store")
              /\ final_result[t].iterations = Len(execution_history)
              /\ final_result[t].execution_history = execution_history
              /\ Count(t, "final_call") = 0
              /\ ModelCalls(t) = Count(t, "plan") + 2 * Len(execution_history)

C11_Witness ==
    /\ ~output_schema
    /\ pc[Caller] = "done"
    /\ final_result[Caller].iterations = 2
    /\ final_result[Caller].achieved
    /\ ~final_result[Caller].execution_history[1].reflection.action_successful

\* C12: with an output schema, finalization makes exactly one model call,
\* after the loop, on the goal, the whole history and the achieved flag; the
\* call then counts p + 2c + 1 model invocations for p Plan invocations and
\* c cycles, and a failure of the final invocation ends the call without a
\* result.
FinalCallAt(t) ==
    CHOOSE i \in 1..Len(trace[t]) : trace[t][i].step = "final_call"

C12_SchemaResult ==
    \A t \in Threads :
        output_schema =>
            /\ Count(t, "final_call") <= 1
            /\ pc[t] \in {"emit_goal_completed", "done"} =>
                  /\ Count(t, "final_call") = 1
                  /\ final_result[t] = StructuredResult
            /\ Count(t, "final_call") = 1 =>
                  LET i == FinalCallAt(t)
                      input == trace[t][i].context
                  IN  /\ \A j \in 1..Len(trace[t]) :
                            j > i => trace[t][j].step \in
                                        {"model_failed", "goal_completed"}
                      /\ trace[t][i - 1].step = "finalize"
                      /\ input.goal = goal[t]
                      /\ input.execution_history = execution_history
                      /\ input.goal_achieved = LastSuccessful(execution_history)
                      /\ input.iterations = Len(execution_history)
                      /\ ModelCalls(t) =
                            Count(t, "plan") + 2 * Len(execution_history) + 1
                      /\ ModelFailed(t) =>
                            /\ pc[t] = "aborted"
                            /\ raised[t] = "ModelInvocationError"
                            /\ final_result[t] = NoneVal

C12_Witness ==
    /\ output_schema
    /\ pc[Caller] = "done"
    /\ Len(execution_history) = 2
    /\ Count(Caller, "plan") = 2
    /\ ModelCalls(Caller) = 7

\* C13: an Action whose tool_name is direct_response gets the successful
\* direct_response result and no tool is executed for it, whatever tools
\* are registered.
DirectAction(a) == a # NoneVal /\ a.tool_name = "direct_response"

C13_DirectResponse ==
    \A t \in Threads :
        /\ (pc[t] \in AfterExecute /\ DirectAction(action[t])) =>
              /\ action_result[t] =
                    [type |-> "direct_response",
                     result |-> "Task completed directly without tool usage",
                     success |-> TRUE]
              /\ CountIn(t, "tool", iteration[t]) = 0
        /\ \A i \in 1..Len(execution_history) :
              DirectAction(execution_history[i].action) =>
                  /\ execution_history[i].action_result.type = "direct_response"
                  /\ execution_history[i].action_result.success
                  /\ CountIn(t, "tool", i) = 0

C13_Witness ==
    /\ pc[Caller] = "reflect"
    /\ DirectAction(action[Caller])
    /\ tools = <<AddTool>>
    /\ Count(Caller, "execute") = 2

\* C14: after any adds and removes the registry lists its tools in the
\* order they were registered; add appends whether or not the name is
\* already there; find returns the earliest registered tool of exactly that
\* name, and nothing when no tool has it.
Holders(registry, n) == {i \in 1..Len(registry) : registry[i].name = n}

C14_RegistryOrder ==
    /\ \A i, j \in 1..Len(tools) : i < j => tools[i].uid < tools[j].uid
    /\ \A i \in 1..Len(tools) : added[tools[i].uid] = tools[i]
    /\ Len(list_tools(tools)) = Len(tools)
    /\ \A i \in 1..Len(tools) : list_tools(tools)[i] = tools[i].name
    /\ \A n \in RegistryNames \cup {"multiply"} :
         LET found == get_tool(tools, n)
         IN  IF Holders(tools, n) = {} THEN found = 0
             ELSE /\ found \in Holders(tools, n)
                  /\ \A j \in Holders(tools, n) :
                        tools[found].uid <= tools[j].uid

C14_RegistryLookup ==
    /\ []C14_RegistryOrder
    /\ [][Len(added') = Len(added) + 1 =>
            /\ Len(tools') = Len(tools) + 1
            /\ SubSeq(tools', 1, Len(tools)) = tools
            /\ tools'[Len(tools')] = added'[Len(added')]]_vars

C14_Witness ==
    /\ Len(tools) = 3
    /\ tools[1].name = tools[3].name
    /\ tools[2].name # tools[1].name
    /\ tools[1].uid > 1
    /\ get_tool(tools, tools[3].name) = 1

\* C15: remove(name) takes out every tool of that name and no other: find
\* of the name then gives nothing, the other tools keep their order, a name
\* that is not registered changes nothing, and a second remove of the same
\* name changes nothing.
Members(registry) == {registry[i] : i \in 1..Len(registry)}
Position(registry, tool) ==
    CHOOSE i \in 1..Len(registry) : registry[i] = tool

RemoveStep(n) == added' = added /\ tools' = remove_tool(tools, n)

C15_RemoveAllOfName ==
    [][\A n \in RegistryNames :
          RemoveStep(n) =>
              /\ get_tool(tools', n) = 0
              /\ Members(tools') = {tool \in Members(tools) : tool.name # n}
              /\ Len(tools') = Cardinality(Members(tools'))
              /\ \A x, y \in Members(tools') :
                    Position(tools', x) < Position(tools', y)
                        <=> Position(tools, x) < Position(tools, y)
              /\ get_tool(tools, n) = 0 => tools' = tools
              /\ remove_tool(tools', n) = tools']_vars

C15_Witness ==
    /\ Len(added) = 4
    /\ added[1].name = added[3].name
    /\ added[2].name # added[1].name
    /\ tools = <<added[2], added[4]>>
    /\ added[4].name # added[1].name

\* C16: a process call whose model and tool calls all return comes to an
\* end; its loop is left only when the Plan of the current iteration says
\* goal_achieved or when max_iterations iterations have been made; it then
\* builds the final result, emits goal_completed once, as its last event,
\* and returns the final result.
LastStep(t) == trace[t][Len(trace[t])].step

C16_LoopExit ==
    /\ pc[Caller] \in {"finalize", "emit_goal_completed", "done"} =>
          \/ /\ plan[Caller] # NoneVal
             /\ plan[Caller].goal_achieved
             /\ plan[Caller].id = <<session[Caller], iteration[Caller]>>
             /\ Len(execution_history) = iteration[Caller] - 1
          \/ /\ iteration[Caller] = max_iterations
             /\ Len(execution_history) = max_iterations
    /\ Count(Caller, "finalize") <= 1
    /\ Count(Caller, "goal_completed") <= 1
    /\ Count(Caller, "goal_completed") = 1 => LastStep(Caller) = "goal_completed"
    /\ pc[Caller] = "done" =>
          /\ Count(Caller, "finalize") = 1
          /\ Count(Caller, "goal_completed") = 1
          /\ final_result[Caller] # NoneVal
          /\ raised[Caller] = "none"
    /\ pc[Caller] = "aborted" => ModelFailed(Caller)

C16_Terminates ==
    /\ []C16_LoopExit
    /\ pc[Caller] # "idle" ~> pc[Caller] \in {"done", "aborted"}

C16_Witness ==
    /\ pc[Caller] = "done"
    /\ max_iterations = MaxIter
    /\ Len(execution_history) = MaxIter
    /\ ~plan[Caller].goal_achieved
    /\ LastStep(Caller) = "goal_completed"

\* C17: within an iteration the steps run in the order Plan, Decide,
\* Execute, Reflect, each followed by its event; the observer sees
\* goal_start first, then for each iteration plan_created, action_decided,
\* action_executed, reflection_completed in that order, only plan_created
\* in the iteration whose Plan says goal_achieved, and goal_completed last.
Follows(a, b) ==
    LET same == b.iteration = a.iteration
    IN  CASE a.step = "goal_start" ->
                \/ b.step = "plan" /\ b.iteration = 1 /\ a.iteration = 0
                \/ b.step = "finalize" /\ same
          [] a.step = "plan" -> b.step \in {"plan_created", "model_failed"} /\ same
          [] a.step = "plan_created" -> b.step \in {"decide", "finalize"} /\ same
          [] a.step = "decide" -> b.step \in {"action_decided", "model_failed"} /\ same
          [] a.step = "action_decided" -> b.step = "execute" /\ same
          [] a.step = "execute" -> b.step \in {"tool", "action_executed"} /\ same
          [] a.step = "tool" -> b.step = "action_executed" /\ same
          [] a.step = "action_executed" -> b.step = "reflect" /\ same
          [] a.step = "reflect" ->
                b.step \in {"reflection_completed", "model_failed"} /\ same
          [] a.step = "reflection_completed" -> b.step = "store" /\ same
          [] a.step = "store" ->
                \/ b.step = "plan" /\ b.iteration = a.iteration + 1
                \/ b.step = "finalize" /\ same
          [] a.step = "finalize" -> b.step \in {"final_call", "goal_completed"} /\ same
          [] a.step = "final_call" ->
                b.step \in {"goal_completed", "model_failed"} /\ same
          [] OTHER -> FALSE

CycleEvents == {"action_decided", "action_executed", "reflection_completed"}

Phase(p) ==
    CASE p = "idle" -> "IDLE"
      [] p \in {"emit_goal_start", "loop", "plan", "emit_plan_created", "check"}
            -> "PLANNING"
      [] p \in {"decide", "emit_action_decided", "execute", "emit_action_executed"}
            -> "ACTING"
      [] p \in {"reflect", "emit_reflection_completed", "store"} -> "REFLECTING"
      [] p \in {"finalize", "emit_goal_completed"} -> "FINALIZING"
      [] p = "done" -> "DONE"
      [] p = "aborted" -> "FAILED"

PlanSaysAchieved(t) ==
    /\ plan[t] # NoneVal
    /\ plan[t].goal_achieved
    /\ plan[t].id = <<session[t], iteration[t]>>

Exhausted(t) ==
    /\ iteration[t] = max_iterations
    /\ Len(execution_history) = max_iterations

PhaseStep(t) ==
    LET from == Phase(pc[t])
        to == Phase(pc'[t])
    IN  from # to =>
          CASE to = "PLANNING" ->
                  from \in {"IDLE", "DONE", "FAILED", "REFLECTING"}
            [] to = "ACTING" -> from = "PLANNING" /\ ~plan[t].goal_achieved
            [] to = "REFLECTING" -> from = "ACTING"
            [] to = "FINALIZING" ->
                  /\ from = "PLANNING"
                  /\ PlanSaysAchieved(t) \/ Exhausted(t)
                  /\ ~(PlanSaysAchieved(t) /\ Exhausted(t))
            [] to = "DONE" -> from = "FINALIZING"
            [] to = "FAILED" ->
                  /\ from \in {"PLANNING", "ACTING", "REFLECTING", "FINALIZING"}
                  /\ ModelFailed(t)'
            [] OTHER -> FALSE

C18_StateMachine == [][PhaseStep(Caller)]_vars

C18_Witness ==
    /\ pc[Caller] = "finalize"
    /\ session[Caller] = 2
    /\ PlanSaysAchieved(Caller)
    /\ Len(execution_history) = 1
    /\ completed[Caller] = NoneVal
    /\ max_iterations = MaxIter

\* C19: the goal-achieved predicate only feeds the report. Whatever the
\* reflection of a recorded cycle says, when iterations remain the loop
\* goes on to the next Plan step; the loop is left only on a Plan's
\* goal_achieved or when max_iterations iterations have been made; the
\* achieved field of the report is the predicate on the history.
CycleSuccessful(k) == execution_history[k].reflection.action_successful

C19_LoopGoesOn ==
    /\ \A k \in 1..Len(execution_history) :
          (pc[Caller] # "idle" /\ k < max_iterations) =>
              \/ pc[Caller] = "loop" /\ iteration[Caller] = k
              \/ pc[Caller] = "plan" /\ iteration[Caller] = k + 1
              \/ CountIn(Caller, "plan", k + 1) = 1
    /\ pc[Caller] \in {"finalize", "emit_goal_completed", "done"} =>
          PlanSaysAchieved(Caller) \/ Exhausted(Caller)
    /\ completed[Caller] # NoneVal =>
          completed[Caller].achieved = LastSuccessful(execution_history)

C19_ReportingOnly ==
    /\ []C19_LoopGoesOn
    /\ [][(pc[Caller] = "loop" /\ iteration[Caller] < max_iterations) =>
              /\ pc'[Caller] = "plan"
              /\ iteration'[Caller] = iteration[Caller] + 1]_vars

C19_Witness ==
    /\ pc[Caller] = "emit_plan_created"
    /\ iteration[Caller] = 2
    /\ Len(execution_history) = 1
    /\ CycleSuccessful(1)
    /\ is_goal_achieved(goal[Caller], execution_history)
    /\ CountIn(Caller, "plan", 2) = 1

\* C20: the reported achieved status follows the last recorded reflection
\* and not the Plan signal that ended the loop, so the two can disagree
\* both ways: a call that stops on a Plan's goal_achieved reports false
\* when no cycle was recorded or the last reflection was unsuccessful, and
\* a call that makes max_iterations iterations with no Plan saying
\* goal_achieved reports true when its last reflection was successful.
NoPlanSaidAchieved(t) ==
    /\ plan[t] # NoneVal => ~plan[t].goal_achieved
    /\ \A k \in 1..Len(execution_history) :
          ~execution_history[k].plan.goal_achieved

C20_ReportIgnoresPlanSignal ==
    /\ completed[Caller] # NoneVal =>
          /\ completed[Caller].achieved = LastSuccessful(execution_history)
          /\ final_result[Caller].achieved = completed[Caller].achieved
          /\ (PlanSaysAchieved(Caller) /\ ~LastSuccessful(execution_history)) =>
                ~completed[Caller].achieved
          /\ (Exhausted(Caller) /\ NoPlanSaidAchieved(Caller)
                /\ LastSuccessful(execution_history)) =>
                completed[Caller].achieved
    /\ earlier[Caller] # NoneVal =>
          earlier[Caller] \in [by_flag : BOOLEAN, achieved : BOOLEAN]

C20_Witness ==
    /\ earlier[Caller] = [by_flag |-> TRUE, achieved |-> FALSE]
    /\ pc[Caller] = "done"
    /\ Exhausted(Caller)
    /\ max_iterations = MaxIter
    /\ NoPlanSaidAchieved(Caller)
    /\ completed[Caller].achieved
    /\ ~execution_history[1].reflection.action_successful

\* C21: the Plan step of iteration i is given the last min(3, i-1)
\* recorded cycles of the call, in their order, and nothing else; the
\* history itself keeps every cycle recorded so far.
WindowSize(i) == IF i - 1 <= 3 THEN i - 1 ELSE 3

PlanInvoked(t) == CountIn(t, "plan", iteration[t]) = 1

C21_PlanSeesLastThree ==
    PlanInvoked(Caller) =>
        LET i == iteration[Caller]
            n == WindowSize(i)
        IN  /\ Len(execution_history) >= i - 1
            /\ \A k \in 1..Len(execution_history) :
                  /\ execution_history[k].iteration = k
                  /\ execution_history[k].plan.id = <<session[Caller], k>>
            /\ Len(plan_context[Caller]) = n
            /\ \A j \in 1..n :
                  plan_context[Caller][j] = execution_history[i - 1 - n + j]

C21_Witness ==
    /\ pc[Caller] = "emit_plan_created"
    /\ iteration[Caller] = 5
    /\ Len(execution_history) = 4
    /\ Len(plan_context[Caller]) = 3
    /\ plan_context[Caller][1].iteration = 2
    /\ plan_context[Caller][3].iteration = 4

\* C22: within one process call the history only grows, by one cycle for
\* each iteration that completes Plan, Decide, Execute and Reflect; a
\* recorded cycle keeps its content and its place until the call returns.
C22_CyclesRecorded ==
    pc[Caller] # "idle" =>
        Len(execution_history) =
            Count(Caller, "reflection_completed")
                - (IF pc[Caller] = "store" THEN 1 ELSE 0)

C22_AppendOnly ==
    /\ []C22_CyclesRecorded
    /\ [][calls' = calls =>
            /\ Len(execution_history') \in
                  {Len(execution_history), Len(execution_history) + 1}
            /\ SubSeq(execution_history', 1, Len(execution_history))
                  = execution_history
            /\ Len(execution_history') = Len(execution_history) + 1 =>
                  /\ pc[Caller] = "store"
                  /\ execution_history'[Len(execution_history')] =
                        Cycle(iteration[Caller], plan[Caller], action[Caller],
                              action_result[Caller], reflection[Caller])
            /\ pc[Caller] = "store" =>
                  Len(execution_history') = Len(execution_history) + 1]_vars

C22_Witness ==
    /\ pc[Caller] = "done"
    /\ Len(execution_history) = 2
    /\ execution_history[1].iteration = 1
    /\ execution_history[1].reflection.action_successful
    /\ ~execution_history[2].reflection.action_successful
    /\ execution_history[1].action.tool_name # execution_history[2].action.tool_name

\* C23, as stated: after a process call returns, current_plan is the last
\* Plan the Plan step of that call produced.
C23_LastPlanProduced ==
    (pc[Caller] = "done" /\ Count(Caller, "plan") >= 1) =>
        current_plan = plan[Caller]

\* C23, amended: after a process call returns, current_plan is the Plan of
\* the last cycle the call recorded, which is the last Plan produced unless
\* the loop ended on that Plan's goal_achieved; a call that recorded no
\* cycle leaves current_plan as it was before the call. current_plan is
\* assigned nowhere but where a cycle is recorded.
C23_PlanAtReturn ==
    pc[Caller] = "done" =>
        /\ execution_history # <<>> =>
              /\ current_plan = execution_history[Len(execution_history)].plan
              /\ current_plan.id = <<session[Caller], Len(execution_history)>>
              /\ ~plan[Caller].goal_achieved => current_plan = plan[Caller]
        /\ execution_history = <<>> =>
              \/ current_plan = NoneVal
              \/ current_plan.id[1] < session[Caller]

C23_PlanOfLastCycle ==
    /\ []C23_PlanAtReturn
    /\ [][current_plan' # current_plan =>
            /\ pc[Caller] = "store"
            /\ current_plan' = plan[Caller]]_vars

C23_Witness ==
    /\ pc[Caller] = "done"
    /\ Len(execution_history) = 1
    /\ plan[Caller].goal_achieved
    /\ plan[Caller].id = <<session[Caller], 2>>
    /\ current_plan.id = <<session[Caller], 1>>

\* C24: two process calls on one agent whose steps interleave can leave a
\* call with a result that holds cycles recorded for the other call, and
\* a history whose iteration indices are not 1..len(history); as long as
\* no call is started while another runs, neither happens.
IndicesInOrder(history) ==
    \A k \in 1..Len(history) : history[k].iteration = k

OwnCyclesOnly(t) ==
    final_result[t] # NoneVal =>
        /\ OfSession(final_result[t].execution_history, session[t])
        /\ IndicesInOrder(final_result[t].execution_history)

C24_SerializedIsSafe ==
    ~overlapped =>
        /\ IndicesInOrder(execution_history)
        /\ \A t \in Threads :
              /\ OwnCyclesOnly(t)
              /\ pc[t] \notin Resting => OfSession(execution_history, session[t])

C24_Witness ==
    /\ overlapped
    /\ pc[Caller] = "done"
    /\ ~OfSession(final_result[Caller].execution_history, session[Caller])
    /\ ~IndicesInOrder(execution_history)
    /\ \E k \in 1..Len(execution_history) :
          execution_history[k].plan.id[1] = session[Caller]

\* C25: the iteration count carried by the goal_completed event equals the
\* iterations field of the default final result of the same call, both
\* being the number of recorded cycles, also when the loop ends on a
\* Plan's goal_achieved.
C25_SameIterationCount ==
    (completed[Caller] # NoneVal /\ ~output_schema) =>
        /\ completed[Caller].iterations = final_result[Caller].iterations
        /\ completed[Caller].iterations = Len(execution_history)

\* C26: when a model invocation of iteration k fails (Plan, Decide or
\* Reflect), the history at that moment holds the k-1 cycles completed
\* before it and nothing of iteration k, also when the tool of iteration k
\* had already run before the Reflect call failed.
FailedIn(t, s) ==
    /\ Len(trace[t]) >= 2
    /\ LastStep(t) = "model_failed"
    /\ trace[t][Len(trace[t]) - 1].step = s

C26_NoPartialCycle ==
    \A s \in {"plan", "decide", "reflect"} :
        FailedIn(Caller, s) =>
            LET k == iteration[Caller]
            IN  /\ pc[Caller] = "aborted"
                /\ trace[Caller][Len(trace[Caller])].iteration = k
                /\ Len(execution_history) = k - 1
                /\ \A j \in 1..Len(execution_history) :
                      /\ execution_history[j].iteration = j
                      /\ execution_history[j].reflection # NoneVal
                /\ final_result[Caller] = NoneVal
                /\ s = "reflect" => CountIn(Caller, "execute", k) = 1

C26_Witness ==
    /\ FailedIn(Caller, "reflect")
    /\ iteration[Caller] = 2
    /\ Len(execution_history) = 1
    /\ \E i \in 1..Len(trace[Caller]) :
          /\ trace[Caller][i].step = "tool"
          /\ trace[Caller][i].iteration = 2
          /\ trace[Caller][i].outcome = "returns"

\* C27: every result of the Execute step has success = true exactly when
\* its type is direct_response or tool_execution, and success = false
\* exactly when its type is error; a tool_execution result carries the
\* action's tool name and parameters and the value the tool returned.
WellFormedResult(a, r, t, k) ==
    /\ r.type \in {"direct_response", "tool_execution", "error"}
    /\ r.success \in BOOLEAN
    /\ r.success <=> r.type \in {"direct_response", "tool_execution"}
    /\ ~r.success <=> r.type = "error"
    /\ r.type = "tool_execution" =>
          /\ r.tool_name = a.tool_name
          /\ r.parameters = a.tool_parameters
          /\ r.result = "7.0"
          /\ \E i \in 1..Len(trace[t]) :
                /\ trace[t][i].step = "tool"
                /\ trace[t][i].iteration = k
                /\ trace[t][i].tool = a.tool_name
                /\ trace[t][i].outcome = "returns"
    /\ ToolRaisedIn(t, k) => r.type = "error"

C27_ActionResultShape ==
    /\ (pc[Caller] \in AfterExecute) =>
          WellFormedResult(action[Caller], action_result[Caller], Caller,
                           iteration[Caller])
    /\ pc[Caller] # "idle" =>
          \A k \in 1..Len(execution_history) :
              WellFormedResult(execution_history[k].action,
                               execution_history[k].action_result, Caller, k)

C27_Witness ==
    /\ Len(execution_history) = 2
    /\ execution_history[1].action_result.type = "tool_execution"
    /\ execution_history[2].action_result.type = "error"
    /\ execution_history[2].action_result.success = FALSE
    /\ ToolRaisedIn(Caller, 2)

\* C28: a tool registered under the name direct_response is never run by
\* the Execute step: the test for the sentinel comes before the lookup, so
\* an action naming direct_response gives the direct_response result also
\* when such a tool is registered.
SentinelToolRegistered == Registered("direct_response")

C28_SentinelBeforeLookup ==
    /\ \A i \in 1..Len(trace[Caller]) :
          trace[Caller][i].step = "tool" =>
              trace[Caller][i].tool # "direct_response"
    /\ (SentinelToolRegistered /\ pc[Caller] \in AfterExecute
          /\ DirectAction(action[Caller])) =>
          /\ action_result[Caller] = DirectResult
          /\ trace[Caller][Len(trace[Caller])].step # "tool"
    /\ (SentinelToolRegistered /\ pc[Caller] # "idle") =>
          \A k \in 1..Len(execution_history) :
              DirectAction(execution_history[k].action) =>
                  execution_history[k].action_result = DirectResult

C28_Witness ==
    /\ SentinelToolRegistered
    /\ pc[Caller] = "emit_action_executed"
    /\ DirectAction(action[Caller])
    /\ action_result[Caller].type = "direct_response"
    /\ Count(Caller, "tool") = 0

\* C29: the execution_history of the default result a process call
\* returned is not changed by a later process call on the agent: the later
\* call binds the agent to a new list and leaves the returned one alone.
C29_ReturnedHistoryKept ==
    kept[Caller] # NoneVal =>
        /\ HeldHistory(Caller) = kept[Caller].returned
        /\ kept[Caller].ref # history_ref
        /\ OfSession(HeldHistory(Caller), session[Caller] - 1)

C29_Witness ==
    /\ kept[Caller] # NoneVal
    /\ Len(kept[Caller].returned) = 1
    /\ pc[Caller] = "done"
    /\ Len(execution_history) = 1
    /\ execution_history # kept[Caller].returned
    /\ final_result[Caller].execution_history = execution_history

\* C30: the start of a process call sets current_goal and empties the
\* history but does not touch current_plan; a call that records no cycle
\* (its first Plan says goal_achieved, or max_iterations is 0) returns with
\* current_plan still the plan an earlier call recorded.
C30_PlanFromEarlierCall ==
    (pc[Caller] = "done" /\ execution_history = <<>>
        /\ current_plan # NoneVal) =>
        /\ current_plan.id[1] < session[Caller]
        /\ ~current_plan.goal_achieved
        /\ plan[Caller] # NoneVal => current_plan # plan[Caller]

C30_PlanSurvivesStart ==
    /\ []C30_PlanFromEarlierCall
    /\ [][/\ calls' = calls + 1 =>
               /\ current_goal' = [goal |-> goal'[Caller]]
               /\ execution_history' = <<>>
               /\ current_plan' = current_plan
          /\ execution_history' = <<>> => current_plan' = current_plan]_vars

C30_Witness ==
    /\ pc[Caller] = "done"
    /\ session[Caller] = 2
    /\ execution_history = <<>>
    /\ max_iterations = MaxIter
    /\ plan[Caller].goal_achieved
    /\ current_plan # NoneVal
    /\ current_plan.id[1] = 1

====
